---- MODULE Spec2Model ----
(***************************************************************************)
(* Startup gate of the go-postgres server binary.                          *)
(*                                                                         *)
(*   cmd/postgres/main.go          main: the cobra command tree, the       *)
(*                                 PersistentPreRunE privilege gate, the   *)
(*                                 mode entry points, the exit code        *)
(*   internal/platform (!windows)  CheckRoot on POSIX (uid / euid)         *)
(*   internal/platform (windows)   CheckRoot on the token/ACL platform     *)
(*                                                                         *)
(* One process execution is one behaviour.  The process identity, the      *)
(* build platform and the command line are chosen in Init and never        *)
(* change.  Texts are sequences of chunks: a program name is a sequence of *)
(* one-character strings, a fixed message is one chunk.                    *)
(*                                                                         *)
(* Library behaviour the program relies on is modelled as the library      *)
(* implements it: cobra's Execute (Find, flag parsing, the order of the    *)
(* hooks, the help and completion commands it adds, its error printing),   *)
(* filepath.Base, and the Go runtime's handling of an unrecovered panic    *)
(* (report on stderr, exit status 2).  Not modelled: cobra's guard against *)
(* being started from the Windows explorer, and a failing token.Close      *)
(* (the code discards its result).  PostmasterMain lives in                *)
(* internal/postmaster; only its possible outcomes are modelled.           *)
(***************************************************************************)
EXTENDS Integers, Sequences, FiniteSets, TLC

VARIABLES
    platform,   \* build tag of internal/platform: "posix" or "windows"
    arg0,       \* os.Args[0]
    argv,       \* os.Args[1:]
    ruid,       \* os.Getuid()
    euid,       \* os.Geteuid()
    osenv,      \* token platform: what the three OS calls and the token answer
    pc,         \* position of the process
    progname,   \* main's progname, CheckRoot's parameter
    cmd,        \* the command cobra's Find selected
    flags,      \* the arguments Find left for that command
    err,        \* the error value in flight (Nil: none)
    token,      \* CheckRoot (windows) local: the token handle
    deferred,   \* CheckRoot (windows): the deferred calls registered so far
    isAdmin,    \* CheckRoot (windows) local: result of token.IsMember
    handles,    \* number of process token handles currently open
    log,        \* history of calls and returns, oldest first
    stdout,     \* what was written to the standard output
    stderr,     \* what was written to the diagnostic output
    exitCode    \* the process exit code, NoExit while the process runs

vars == <<platform, arg0, argv, ruid, euid, osenv, pc, progname, cmd, flags, err,
          token, deferred, isAdmin, handles, log, stdout, stderr, exitCode>>

identity == <<platform, arg0, argv, ruid, euid, osenv>>
winLocals == <<token, deferred, isAdmin, handles>>
output == <<stdout, stderr, exitCode>>

----------------------------------------------------------------------------
(* Bounds of the model *)

MaxArgs == 2        \* longest command line (tokens after the program name)
MaxUid == 2         \* user ids range over 0..MaxUid
MaxNameLen == 2     \* longest program name handed to CheckRoot directly

NoExit == 0 - 1
NoUid == 0 - 1      \* os.Getuid / os.Geteuid on the token platform

----------------------------------------------------------------------------
(* Texts *)

Nil == [kind |-> "nil", text |-> <<>>]

Contains(text, sub) ==
    \E i \in 1..(Len(text) + 1) :
        /\ i + Len(sub) - 1 <= Len(text)
        /\ SubSeq(text, i, i + Len(sub) - 1) = sub

Count(seq, e) == Cardinality({i \in 1..Len(seq) : seq[i] = e})

RECURSIVE SeqsUpTo(_, _)
SeqsUpTo(S, n) ==
    IF n = 0 THEN {<<>>}
    ELSE LET shorter == SeqsUpTo(S, n - 1)
         IN  shorter \cup {Append(s, x) : s \in {t \in shorter : Len(t) = n - 1}, x \in S}

----------------------------------------------------------------------------
(* internal/platform, POSIX build: CheckRoot *)

RootMessage == <<"\"root\" execution of the PostgreSQL server is not permitted.">>
MismatchSuffix == <<": real and effective user IDs must match">>

RunningAsSuperuser == [kind |-> "RunningAsSuperuser", text |-> RootMessage]
IdentityMismatch(name) == [kind |-> "IdentityMismatch", text |-> name \o MismatchSuffix]

CheckRootMismatchFirst(name, r, e) ==
    IF r # e THEN IdentityMismatch(name)
    ELSE IF e = 0 THEN RunningAsSuperuser
    ELSE Nil

CheckRootMismatchInverted(name, r, e) ==
    IF e = 0 THEN RunningAsSuperuser
    ELSE IF r = e THEN IdentityMismatch(name)
    ELSE Nil

CheckRootAnonymousMismatch(name, r, e) ==
    IF e = 0 THEN RunningAsSuperuser
    ELSE IF r # e THEN IdentityMismatch(<<>>)
    ELSE Nil

CheckRootNoMismatchTest(name, r, e) ==
    IF e = 0 THEN RunningAsSuperuser ELSE Nil

CheckRootTrustsNamedProgram(name, r, e) ==
    IF e = 0 THEN RunningAsSuperuser
    ELSE IF r # e /\ name = <<>> THEN IdentityMismatch(name)
    ELSE Nil

CheckRootPosix(name, r, e) ==
    IF e = 0 THEN RunningAsSuperuser
    ELSE IF r # e THEN IdentityMismatch(name)
    ELSE Nil

Returned(e) == IF e = Nil THEN "CheckRoot.ok" ELSE "CheckRoot.err"

CheckRoot_posix ==
    /\ pc = "CheckRoot"
    /\ platform = "posix"
    /\ err' = CheckRootPosix(progname, ruid, euid)
    /\ log' = Append(log, Returned(err'))
    /\ pc' = "CheckRootRet"
    /\ UNCHANGED <<identity, progname, cmd, flags, winLocals, output>>

----------------------------------------------------------------------------
(* internal/platform, windows build: CheckRoot *)

OsCause == <<"Access is denied.">>
AdminMessage ==
    <<"Execution of PostgreSQL by a user with administrative permissions is not permitted.">>

TokenAccessFailed ==
    [kind |-> "TokenAccessFailed",
     text |-> <<"failed to check admin privileges: ">> \o OsCause]
SidResolutionFailed ==
    [kind |-> "SidResolutionFailed",
     text |-> <<"failed to create admin SID: ">> \o OsCause]
MembershipCheckFailed ==
    [kind |-> "MembershipCheckFailed",
     text |-> <<"failed to check admin membership: ">> \o OsCause]
RunningAsAdministrator == [kind |-> "RunningAsAdministrator", text |-> AdminMessage]

\* what OpenProcessToken's caller registers with defer, by the call's success
NeverDeferClose(opened) == <<>>

DeferAfterOpen(opened) == IF opened THEN <<"token.Close">> ELSE <<>>

AdminDecisionNeverRejects(member) == Nil

AdminDecision(member) == IF member THEN RunningAsAdministrator ELSE Nil

CheckRoot_OpenProcessToken ==
    /\ pc = "CheckRoot"
    /\ platform = "windows"
    /\ deferred' = DeferAfterOpen(osenv.openOK)
    /\ IF osenv.openOK
       THEN /\ token' = "open"
            /\ handles' = handles + 1
            /\ log' = Append(log, "OpenProcessToken.ok")
            /\ err' = Nil
            /\ pc' = "CreateWellKnownSid"
       ELSE /\ err' = TokenAccessFailed
            /\ log' = Append(log, "OpenProcessToken.err")
            /\ pc' = "CheckRootReturn"
            /\ UNCHANGED <<token, handles>>
    /\ UNCHANGED <<identity, progname, cmd, flags, isAdmin, output>>

CheckRoot_CreateWellKnownSid ==
    /\ pc = "CreateWellKnownSid"
    /\ IF osenv.sidOK
       THEN /\ pc' = "IsMember"
            /\ log' = Append(log, "CreateWellKnownSid.ok")
            /\ UNCHANGED err
       ELSE /\ err' = SidResolutionFailed
            /\ log' = Append(log, "CreateWellKnownSid.err")
            /\ pc' = "CheckRootReturn"
    /\ UNCHANGED <<identity, progname, cmd, flags, winLocals, output>>

CheckRoot_IsMember ==
    /\ pc = "IsMember"
    /\ IF osenv.memberOK
       THEN /\ isAdmin' = osenv.member
            /\ log' = Append(log, "IsMember.ok")
            /\ pc' = "IsAdmin"
            /\ UNCHANGED err
       ELSE /\ err' = MembershipCheckFailed
            /\ log' = Append(log, "IsMember.err")
            /\ pc' = "CheckRootReturn"
            /\ UNCHANGED isAdmin
    /\ UNCHANGED <<identity, progname, cmd, flags, token, deferred, handles, output>>

CheckRoot_IsAdmin ==
    /\ pc = "IsAdmin"
    /\ err' = AdminDecision(isAdmin)
    /\ pc' = "CheckRootReturn"
    /\ UNCHANGED <<identity, progname, cmd, flags, winLocals, log, output>>

\* the function returns: the deferred calls run, then the caller has the result
CheckRoot_return ==
    /\ pc = "CheckRootReturn"
    /\ IF deferred # <<>>
       THEN /\ log' = log \o <<"token.Close", Returned(err)>>
            /\ token' = "closed"
            /\ handles' = IF token = "open" THEN handles - 1 ELSE handles
       ELSE /\ log' = Append(log, Returned(err))
            /\ UNCHANGED <<token, handles>>
    /\ deferred' = <<>>
    /\ pc' = "CheckRootRet"
    /\ UNCHANGED <<identity, progname, cmd, flags, err, isAdmin, output>>

CheckRootStep ==
    \/ CheckRoot_posix
    \/ CheckRoot_OpenProcessToken
    \/ CheckRoot_CreateWellKnownSid
    \/ CheckRoot_IsMember
    \/ CheckRoot_IsAdmin
    \/ CheckRoot_return

----------------------------------------------------------------------------
(* The identities a process can have *)

NoEnv == [openOK |-> TRUE, sidOK |-> TRUE, memberOK |-> TRUE, member |-> FALSE]
OsEnvs == [openOK : BOOLEAN, sidOK : BOOLEAN, memberOK : BOOLEAN, member : BOOLEAN]

InitIdentity ==
    /\ platform \in {"posix", "windows"}
    /\ IF platform = "posix"
       THEN /\ ruid \in 0..MaxUid
            /\ euid \in 0..MaxUid
            /\ osenv = NoEnv
       ELSE /\ ruid = NoUid
            /\ euid = NoUid
            /\ osenv \in OsEnvs

InitLocals ==
    /\ err = Nil
    /\ token = "none"
    /\ deferred = <<>>
    /\ isAdmin = FALSE
    /\ handles = 0
    /\ stdout = <<>>
    /\ stderr = <<>>
    /\ exitCode = NoExit

----------------------------------------------------------------------------
(* CheckRoot called on its own, with every program name *)

NameChars == {"p", "/"}
Names == SeqsUpTo(NameChars, MaxNameLen)

InitCheckRoot ==
    /\ InitIdentity
    /\ InitLocals
    /\ arg0 = <<>>
    /\ argv = <<>>
    /\ progname \in Names
    /\ cmd = "none"
    /\ flags = <<>>
    /\ pc = "CheckRoot"
    /\ log = <<"CheckRoot.call">>

NextCheckRoot == CheckRootStep

SpecCheckRoot == InitCheckRoot /\ [][NextCheckRoot]_vars

----------------------------------------------------------------------------
(* cmd/postgres/main.go: the command tree handed to cobra *)

Root == "postgres"
ReservedModes == {"check", "boot", "single"}

\* rootCmd.AddCommand(...), and the help and completion commands Execute adds
Children(c) ==
    IF c = Root
    THEN {"check", "boot", "describe-config", "single", "help", "completion"}
    ELSE IF c = "completion" THEN {"bash"}
    ELSE {}

Commands == {Root} \cup Children(Root) \cup Children("completion")

\* commands with a Run or RunE function
Runnable(c) == c # "completion"

\* commands whose Args validator is set (cobra.NoArgs)
NoArgsCommands == {"completion", "bash"}

\* only the root command sets Version, so only it gets a --version flag
HasVersion(c) == c = Root

FlagTokens == {"--help", "--version"}
Words ==
    {"check", "boot", "single", "describe-config", "help", "completion", "bash",
     "frobnicate", "Check"}
Tokens == Words \cup FlagTokens

\* the case-sensitive lookup of a subcommand by name
FindNextFoldCase(c, next) ==
    IF next \in Children(c) THEN next
    ELSE IF next = "Check" /\ "check" \in Children(c) THEN "check"
    ELSE "none"

FindNext(c, next) == IF next \in Children(c) THEN next ELSE "none"

\* Find runs before the help and version flags are defined, so a flag token is
\* taken to carry a value: the token after it is skipped, and the scan stops when
\* at most one token is left after the flag
RECURSIVE StripFlags(_)
StripFlags(args) ==
    IF args = <<>> THEN <<>>
    ELSE LET s == Head(args)
             rest == Tail(args)
         IN  IF s \in FlagTokens
             THEN IF Len(rest) <= 1 THEN <<>> ELSE StripFlags(Tail(rest))
             ELSE <<s>> \o StripFlags(rest)

RECURSIVE ArgsMinusFirstXFrom(_, _, _)
ArgsMinusFirstXFrom(args, x, pos) ==
    IF pos > Len(args) THEN args
    ELSE IF args[pos] \in FlagTokens THEN ArgsMinusFirstXFrom(args, x, pos + 2)
    ELSE IF args[pos] = x
         THEN SubSeq(args, 1, pos - 1) \o SubSeq(args, pos + 1, Len(args))
    ELSE ArgsMinusFirstXFrom(args, x, pos + 1)

ArgsMinusFirstX(args, x) == ArgsMinusFirstXFrom(args, x, 1)

RECURSIVE InnerFind(_, _)
InnerFind(c, innerArgs) ==
    LET argsWOflags == StripFlags(innerArgs)
    IN  IF argsWOflags = <<>> THEN [cmd |-> c, args |-> innerArgs]
        ELSE LET next == FindNext(c, argsWOflags[1])
             IN  IF next # "none"
                 THEN InnerFind(next, ArgsMinusFirstX(innerArgs, argsWOflags[1]))
                 ELSE [cmd |-> c, args |-> innerArgs]

UnknownCommand(word, c) ==
    [kind |-> "ParseError", text |-> <<"unknown command ", word, " for ", c>>]
UnknownFlag(flag) ==
    [kind |-> "ParseError", text |-> <<"unknown flag: ", flag>>]
ErrHelp == [kind |-> "ErrHelp", text |-> <<"pflag: help requested">>]

\* the root command with subcommands rejects a leftover word
LegacyArgsValidationLenient(c, args) == Nil

LegacyArgsValidation(c, args) ==
    IF Children(c) = {} THEN Nil
    ELSE IF c = Root /\ args # <<>> THEN UnknownCommand(args[1], Root)
    ELSE Nil

Find(args) ==
    LET found == InnerFind(Root, args)
    IN  [cmd |-> found.cmd, args |-> found.args,
         err |-> IF found.cmd \in NoArgsCommands THEN Nil
                 ELSE LegacyArgsValidation(found.cmd, StripFlags(found.args))]

IsWord(t) == t \notin FlagTokens

\* the flags of a that command c does not define
UnknownFlags(c, a) ==
    SelectSeq(a, LAMBDA t : t \in FlagTokens /\ t = "--version" /\ ~HasVersion(c))

\* filepath.Base
RECURSIVE StripTrailingSlashes(_)
StripTrailingSlashes(path) ==
    IF path # <<>> /\ path[Len(path)] = "/"
    THEN StripTrailingSlashes(SubSeq(path, 1, Len(path) - 1))
    ELSE path

RECURSIVE LastElement(_)
LastElement(path) ==
    IF path = <<>> \/ path[Len(path)] = "/" THEN <<>>
    ELSE Append(LastElement(SubSeq(path, 1, Len(path) - 1)), path[Len(path)])

Base(path) ==
    IF path = <<>> THEN <<".">>
    ELSE LET last == LastElement(StripTrailingSlashes(path))
         IN  IF last = <<>> THEN <<"/">> ELSE last

----------------------------------------------------------------------------
(* cmd/postgres/main.go: main, and cobra's Execute around its callbacks *)

ErrorLine(e) == <<"Error: ">> \o e.text
UsageHint == <<"Run 'postgres --help' for usage.">>
UsageOf(c) == <<"Usage: ", c>>
HelpOf(c) == <<"Help: ", c>>
VersionLine == <<"postgres version 0.0.1 (My-Postgres-Go)">>
ConfigListing == <<"GucInfoMain: Listing all configuration parameters...">>
CompletionScript == <<"# bash completion for postgres">>

PanicMessage(c) ==
    IF c = "check" THEN "DISPATCH_CHECK: Not implemented yet"
    ELSE IF c = "boot" THEN "DISPATCH_BOOT: Not implemented yet"
    ELSE "DISPATCH_SINGLE: Not implemented yet"

\* an unrecovered panic: the runtime writes the value and the stack, exits with 2
PanicExitCode == 2
PanicReport(c) == <<"panic: ", PanicMessage(c), "goroutine 1 [running]:">>

Entry(c) == "Entry." \o c

main_progname ==
    /\ pc = "Start"
    /\ progname' = Base(arg0)
    /\ pc' = "Parsing"
    /\ UNCHANGED <<identity, cmd, flags, err, winLocals, log, output>>

\* rootCmd.Execute: no command matches the command line
Execute_unknownCommand ==
    /\ pc = "Parsing"
    /\ Find(argv).err # Nil
    /\ err' = Find(argv).err
    /\ stderr' = stderr \o <<ErrorLine(err'), UsageHint>>
    /\ pc' = "ExecuteReturned"
    /\ UNCHANGED <<identity, progname, cmd, flags, winLocals, log, stdout, exitCode>>

Execute_found ==
    /\ pc = "Parsing"
    /\ Find(argv).err = Nil
    /\ cmd' = Find(argv).cmd
    /\ flags' = Find(argv).args
    /\ pc' = "ParseFlags"
    /\ UNCHANGED <<identity, progname, err, winLocals, log, output>>

\* Command.execute up to the pre-run hooks
ExecuteOutcome(c, a) ==
    IF UnknownFlags(c, a) # <<>> THEN [kind |-> "error", err |-> UnknownFlag(UnknownFlags(c, a)[1])]
    ELSE IF \E i \in 1..Len(a) : a[i] = "--help" THEN [kind |-> "help", err |-> ErrHelp]
    ELSE IF HasVersion(c) /\ \E i \in 1..Len(a) : a[i] = "--version"
         THEN [kind |-> "version", err |-> Nil]
    ELSE IF ~Runnable(c) THEN [kind |-> "help", err |-> ErrHelp]
    ELSE IF c \in NoArgsCommands /\ SelectSeq(a, IsWord) # <<>>
         THEN [kind |-> "error", err |-> UnknownCommand(SelectSeq(a, IsWord)[1], c)]
    ELSE [kind |-> "run", err |-> Nil]

execute_error ==
    /\ pc = "ParseFlags"
    /\ ExecuteOutcome(cmd, flags).kind = "error"
    /\ err' = ExecuteOutcome(cmd, flags).err
    /\ stderr' = Append(stderr, ErrorLine(err'))
    /\ stdout' = Append(stdout, UsageOf(cmd))
    /\ pc' = "ExecuteReturned"
    /\ UNCHANGED <<identity, progname, cmd, flags, winLocals, log, exitCode>>

execute_help ==
    /\ pc = "ParseFlags"
    /\ ExecuteOutcome(cmd, flags).kind = "help"
    /\ stdout' = Append(stdout, HelpOf(cmd))
    /\ err' = Nil
    /\ pc' = "ExecuteReturned"
    /\ UNCHANGED <<identity, progname, cmd, flags, winLocals, log, stderr, exitCode>>

execute_version ==
    /\ pc = "ParseFlags"
    /\ ExecuteOutcome(cmd, flags).kind = "version"
    /\ stdout' = Append(stdout, VersionLine)
    /\ err' = Nil
    /\ pc' = "ExecuteReturned"
    /\ UNCHANGED <<identity, progname, cmd, flags, winLocals, log, stderr, exitCode>>

execute_preRun ==
    /\ pc = "ParseFlags"
    /\ ExecuteOutcome(cmd, flags).kind = "run"
    /\ flags' = SelectSeq(flags, IsWord)
    /\ pc' = "PersistentPreRunE"
    /\ UNCHANGED <<identity, progname, cmd, err, winLocals, log, output>>

\* rootCmd.PersistentPreRunE
ExemptAll(c) == TRUE

ExemptReserved(c) == c \in {"describe-config", "help", "check", "boot", "single"}

ExemptOnlyHelp(c) == c = "help"

Exempt(c) == c = "describe-config" \/ c = "help"

PersistentPreRunE_exempt ==
    /\ pc = "PersistentPreRunE"
    /\ Exempt(cmd)
    /\ pc' = "Run"
    /\ UNCHANGED <<identity, progname, cmd, flags, err, winLocals, log, output>>

PersistentPreRunE_CheckRoot ==
    /\ pc = "PersistentPreRunE"
    /\ ~Exempt(cmd)
    /\ log' = Append(log, "CheckRoot.call")
    /\ pc' = "CheckRoot"
    /\ UNCHANGED <<identity, progname, cmd, flags, err, winLocals, output>>

\* what PersistentPreRunE does with CheckRoot's result
PreRunIgnoresError(e) == Nil

PreRunResult(e) == e

\* a hook that asks CheckRoot a second time before giving up
PersistentPreRunE_retries ==
    /\ pc = "CheckRootRet"
    /\ IF err # Nil /\ Count(log, "CheckRoot.call") < 2
       THEN /\ log' = Append(log, "CheckRoot.call")
            /\ pc' = "CheckRoot"
            /\ UNCHANGED <<err, stdout, stderr>>
       ELSE IF err # Nil
       THEN /\ stderr' = Append(stderr, ErrorLine(err))
            /\ stdout' = Append(stdout, UsageOf(cmd))
            /\ pc' = "ExecuteReturned"
            /\ UNCHANGED <<err, log>>
       ELSE /\ pc' = "Run"
            /\ UNCHANGED <<err, log, stdout, stderr>>
    /\ UNCHANGED <<identity, progname, cmd, flags, winLocals, exitCode>>

PersistentPreRunE_return ==
    /\ pc = "CheckRootRet"
    /\ err' = PreRunResult(err)
    /\ IF err' # Nil
       THEN /\ stderr' = Append(stderr, ErrorLine(err'))
            /\ stdout' = Append(stdout, UsageOf(cmd))
            /\ pc' = "ExecuteReturned"
       ELSE /\ pc' = "Run"
            /\ UNCHANGED <<stdout, stderr>>
    /\ UNCHANGED <<identity, progname, cmd, flags, winLocals, log, exitCode>>

----------------------------------------------------------------------------
(* The mode entry points *)

\* internal/postmaster.PostmasterMain: returns nil, returns an error, or keeps
\* supervising and never returns
PostmasterOutcomes == {"nil", "error", "supervise"}
PostmasterError == [kind |-> "PostmasterError", text |-> <<"postmaster failed">>]

Run_PostmasterMain ==
    /\ pc = "Run"
    /\ cmd = Root
    /\ log' = Append(log, Entry(Root))
    /\ \E outcome \in PostmasterOutcomes :
          \/ /\ outcome = "nil"
             /\ err' = Nil
             /\ pc' = "ExecuteReturned"
             /\ UNCHANGED <<stdout, stderr>>
          \/ /\ outcome = "error"
             /\ err' = PostmasterError
             /\ stderr' = Append(stderr, ErrorLine(err'))
             /\ stdout' = Append(stdout, UsageOf(cmd))
             /\ pc' = "ExecuteReturned"
          \/ /\ outcome = "supervise"
             /\ pc' = "Supervising"
             /\ UNCHANGED <<err, stdout, stderr>>
    /\ UNCHANGED <<identity, progname, cmd, flags, winLocals, exitCode>>

\* checkCmd, bootCmd, singleCmd: Run panics
Run_reserved ==
    /\ pc = "Run"
    /\ cmd \in ReservedModes
    /\ log' = log \o <<Entry(cmd), "panic">>
    /\ stderr' = Append(stderr, PanicReport(cmd))
    /\ exitCode' = PanicExitCode
    /\ pc' = "Exited"
    /\ UNCHANGED <<identity, progname, cmd, flags, err, winLocals, stdout>>

Run_describeConfig ==
    /\ pc = "Run"
    /\ cmd = "describe-config"
    /\ log' = Append(log, Entry(cmd))
    /\ stdout' = Append(stdout, ConfigListing)
    /\ err' = Nil
    /\ pc' = "ExecuteReturned"
    /\ UNCHANGED <<identity, progname, cmd, flags, winLocals, stderr, exitCode>>

\* cobra's help command: the help of the command its arguments name
Run_help ==
    /\ pc = "Run"
    /\ cmd = "help"
    /\ log' = Append(log, Entry(cmd))
    /\ stdout' = Append(stdout, IF Find(flags).err = Nil
                                THEN HelpOf(Find(flags).cmd)
                                ELSE <<"Unknown help topic">> \o UsageOf(Root))
    /\ err' = Nil
    /\ pc' = "ExecuteReturned"
    /\ UNCHANGED <<identity, progname, cmd, flags, winLocals, stderr, exitCode>>

\* cobra's completion command for bash
Run_completion ==
    /\ pc = "Run"
    /\ cmd = "bash"
    /\ log' = Append(log, Entry(cmd))
    /\ stdout' = Append(stdout, CompletionScript)
    /\ err' = Nil
    /\ pc' = "ExecuteReturned"
    /\ UNCHANGED <<identity, progname, cmd, flags, winLocals, stderr, exitCode>>

\* main after rootCmd.Execute: os.Exit(1) on an error, else main returns
ExitCodeFor(e) == IF e # Nil THEN 1 ELSE 0

main_exit ==
    /\ pc = "ExecuteReturned"
    /\ exitCode' = ExitCodeFor(err)
    /\ pc' = "Exited"
    /\ UNCHANGED <<identity, progname, cmd, flags, err, winLocals, log, stdout, stderr>>

----------------------------------------------------------------------------
(* One execution of the binary *)

Arg0s == {<<>>, <<"p">>, <<"/", "b", "/", "p", "g">>}

Init ==
    /\ InitIdentity
    /\ InitLocals
    /\ arg0 \in Arg0s
    /\ argv \in SeqsUpTo(Tokens, MaxArgs)
    /\ progname = <<>>
    /\ cmd = "none"
    /\ flags = <<>>
    /\ pc = "Start"
    /\ log = <<>>

Next ==
    \/ main_progname
    \/ Execute_unknownCommand
    \/ Execute_found
    \/ execute_error
    \/ execute_help
    \/ execute_version
    \/ execute_preRun
    \/ PersistentPreRunE_exempt
    \/ PersistentPreRunE_CheckRoot
    \/ CheckRoot_posix
    \/ CheckRoot_OpenProcessToken
    \/ CheckRoot_CreateWellKnownSid
    \/ CheckRoot_IsMember
    \/ CheckRoot_IsAdmin
    \/ CheckRoot_return
    \/ PersistentPreRunE_return
    \/ Run_PostmasterMain
    \/ Run_reserved
    \/ Run_describeConfig
    \/ Run_help
    \/ Run_completion
    \/ main_exit

Spec == Init /\ [][Next]_vars

----------------------------------------------------------------------------
(* Vocabulary of the properties *)

Called(e) == \E i \in 1..Len(log) : log[i] = e
CalledBefore(e, i) == \E j \in 1..(i - 1) : log[j] = e
AnyEntry == \E i \in 1..Len(log) : \E c \in Commands : log[i] = Entry(c)
OnStderr(text) == \E i \in 1..Len(stderr) : Contains(stderr[i], text)
OnStdout(text) == \E i \in 1..Len(stdout) : Contains(stdout[i], text)

NonExemptModes == {Root} \cup ReservedModes
PrivilegeErrorKinds ==
    {"RunningAsSuperuser", "IdentityMismatch", "TokenAccessFailed",
     "SidResolutionFailed", "MembershipCheckFailed", "RunningAsAdministrator"}

OsStepsOK == osenv.openOK /\ osenv.sidOK /\ osenv.memberOK
NonPrivileged ==
    \/ platform = "posix" /\ ruid = euid /\ euid # 0
    \/ platform = "windows" /\ OsStepsOK /\ ~osenv.member
Superuser ==
    \/ platform = "posix" /\ euid = 0
    \/ platform = "windows" /\ OsStepsOK /\ osenv.member

AllWords(a) == \A i \in 1..Len(a) : IsWord(a[i])
Ended == pc \in {"Exited", "Supervising"}
Progress == Ended \/ ENABLED Next

----------------------------------------------------------------------------
\* C1: the entry point of a non-exempt mode (the supervisor, check, boot,
\* single) is started only after CheckRoot was called and returned success
\* earlier in the same execution.
C1_EntryOnlyAfterCheckRoot ==
    \A i \in 1..Len(log) :
        (\E c \in NonExemptModes : log[i] = Entry(c))
            => \E j \in 1..(i - 1) :
                   /\ log[j] = "CheckRoot.ok"
                   /\ CalledBefore("CheckRoot.call", j)

C1_Witness ==
    \E i \in 1..Len(log) : log[i] = Entry("single") /\ CalledBefore("CheckRoot.ok", i)

\* C2: once CheckRoot has failed, its message is written to the diagnostic
\* output when Execute returns, no mode entry point is ever started, the
\* process does not stay running and its exit code is not zero.
C2_PrivilegeFailureIsHardStop ==
    Called("CheckRoot.err") =>
        /\ ~AnyEntry
        /\ err.kind \in PrivilegeErrorKinds
        /\ pc \in {"ExecuteReturned", "Exited"} => OnStderr(err.text)
        /\ pc = "Exited" => exitCode # 0 /\ exitCode # NoExit
        /\ pc # "Supervising"
        /\ Progress

C2_Witness ==
    /\ Called("CheckRoot.err")
    /\ pc = "Exited"
    /\ cmd = Root
    /\ err.kind = "IdentityMismatch"

\* C3: a reserved mode (boot, check, single) run by a non-privileged identity
\* ends with its "Not implemented yet" text on the diagnostic output and a
\* non-zero exit code; run by a superuser it ends with the privilege error and
\* a non-zero exit code, and its body is never reached.
C3_ReservedModes ==
    (Len(argv) = 1 /\ argv[1] \in ReservedModes) =>
        /\ Progress
        /\ pc # "Supervising"
        /\ NonPrivileged /\ pc = "Exited" =>
              /\ cmd = argv[1]
              /\ OnStderr(<<PanicMessage(cmd)>>)
              /\ exitCode # 0 /\ exitCode # NoExit
        /\ Superuser =>
              /\ ~Called(Entry(argv[1]))
              /\ ~OnStderr(<<PanicMessage(argv[1])>>)
              /\ pc = "Exited" =>
                    /\ err.kind \in {"RunningAsSuperuser", "RunningAsAdministrator"}
                    /\ OnStderr(err.text)
                    /\ exitCode # 0 /\ exitCode # NoExit

C3_Witness ==
    /\ argv = <<"boot">>
    /\ pc = "Exited"
    /\ Superuser
    /\ OnStderr(RunningAsSuperuser.text)

C3_WitnessNotImplemented ==
    /\ argv = <<"check">>
    /\ pc = "Exited"
    /\ NonPrivileged
    /\ OnStderr(<<PanicMessage("check")>>)

\* C4: a first argument that is no registered mode name (an unknown word, or a
\* registered name in another letter case) ends in a parse error with a
\* non-zero exit code; CheckRoot and the mode entry points, the supervisor
\* included, are never called.
C4_UnknownModeIsParseError ==
    (argv # <<>> /\ argv[1] \in Words \ Children(Root)) =>
        /\ ~Called("CheckRoot.call")
        /\ ~AnyEntry
        /\ Progress
        /\ pc # "Supervising"
        /\ pc \in {"ExecuteReturned", "Exited"} =>
              /\ err.kind = "ParseError"
              /\ OnStderr(<<"unknown command ", argv[1]>>)
        /\ pc = "Exited" => exitCode # 0 /\ exitCode # NoExit

C4_Witness == argv = <<"Check">> /\ pc = "Exited" /\ exitCode = 1

\* C5: describe-config run by a superuser succeeds: the configuration text is
\* written and the exit code is 0.
C5_DescribeConfigAsSuperuser ==
    (argv # <<>> /\ argv[1] = "describe-config" /\ AllWords(argv) /\ Superuser) =>
        /\ Progress
        /\ pc # "Supervising"
        /\ pc = "Exited" =>
              /\ exitCode = 0
              /\ OnStdout(ConfigListing)
              /\ stderr = <<>>

C5_Witness ==
    /\ argv = <<"describe-config">>
    /\ platform = "posix"
    /\ euid = 0
    /\ pc = "Exited"
    /\ exitCode = 0

\* C6: with no subcommand and a non-privileged identity PostmasterMain is
\* started exactly once; in every execution it is started at most once, and
\* only after a successful CheckRoot.
C6_SupervisorOnce ==
    /\ Count(log, Entry(Root)) <= 1
    /\ \A i \in 1..Len(log) : log[i] = Entry(Root) => CalledBefore("CheckRoot.ok", i)
    /\ (argv = <<>> /\ NonPrivileged) =>
          /\ Progress
          /\ Ended => Count(log, Entry(Root)) = 1

C6_Witness ==
    /\ argv = <<>>
    /\ NonPrivileged
    /\ pc = "Supervising"
    /\ Count(log, Entry(Root)) = 1

----------------------------------------------------------------------------
(* CheckRoot on its own: SpecCheckRoot *)

CheckRootDone == pc = "CheckRootRet"
SuperuserKinds == {"RunningAsSuperuser", "RunningAsAdministrator"}

\* C7 as stated: whenever the effective uid is 0 (POSIX) or the token is a
\* member of the administrators group (token platform), CheckRoot returns the
\* superuser/administrator error, whatever the program name.
C7_AsStated ==
    (CheckRootDone /\ (\/ platform = "posix" /\ euid = 0
                       \/ platform = "windows" /\ osenv.member))
        => err.kind \in SuperuserKinds

\* C7 amended: whenever the effective uid is 0 (POSIX, whatever the real uid),
\* or the token was opened, the administrators SID was resolved and the
\* membership test succeeded and answered true (token platform), CheckRoot
\* returns the superuser/administrator error and not the identity-mismatch
\* error, for every program name, the empty one included.
C7_SuperuserRejected ==
    (CheckRootDone /\ (\/ platform = "posix" /\ euid = 0
                       \/ platform = "windows" /\ OsStepsOK /\ osenv.member))
        => /\ err.kind \in SuperuserKinds
           /\ err.kind = IF platform = "posix" THEN "RunningAsSuperuser"
                         ELSE "RunningAsAdministrator"
           /\ err.text = IF platform = "posix" THEN RootMessage ELSE AdminMessage

C7_Witness ==
    /\ CheckRootDone
    /\ platform = "posix"
    /\ euid = 0
    /\ ruid # 0
    /\ progname = <<>>
    /\ err = RunningAsSuperuser

C7_WitnessToken ==
    /\ CheckRootDone
    /\ platform = "windows"
    /\ osenv.member
    /\ err = RunningAsAdministrator

\* C8: on POSIX, when the real uid differs from the effective uid and the
\* effective uid is not 0, CheckRoot returns the identity-mismatch error and
\* its message contains the program name it was given.
C8_IdentityMismatch ==
    (CheckRootDone /\ platform = "posix" /\ ruid # euid /\ euid # 0)
        => /\ err.kind = "IdentityMismatch"
           /\ Contains(err.text, progname)
           /\ Contains(err.text, MismatchSuffix)

C8_Witness ==
    /\ CheckRootDone
    /\ platform = "posix"
    /\ ruid = 0
    /\ euid # 0
    /\ Len(progname) = MaxNameLen
    /\ err.kind = "IdentityMismatch"

\* C9: on POSIX, when the real uid equals the effective uid and both are not 0,
\* CheckRoot returns no error, for every program name.
C9_MatchingNonRootAccepted ==
    (CheckRootDone /\ platform = "posix" /\ ruid = euid /\ euid # 0) => err = Nil

C9_Witness ==
    /\ CheckRootDone
    /\ platform = "posix"
    /\ ruid = euid
    /\ euid = MaxUid
    /\ progname # <<>>
    /\ err = Nil

\* C10: on the token platform, at the moment CheckRoot returns, on every exit
\* path, no token handle the call opened is still open: an opened handle was
\* closed exactly once before the return, and a handle that failed to open was
\* never closed.
C10_NoTokenHandleLeak ==
    /\ Count(log, "token.Close") <= Count(log, "OpenProcessToken.ok")
    /\ Called("OpenProcessToken.err") => ~Called("token.Close")
    /\ handles = Count(log, "OpenProcessToken.ok") - Count(log, "token.Close")
    /\ (CheckRootDone /\ platform = "windows") =>
          /\ handles = 0
          /\ token # "open"
          /\ Called("OpenProcessToken.ok") => Count(log, "token.Close") = 1
          /\ Called("OpenProcessToken.ok") \/ Called("OpenProcessToken.err")

C10_Witness ==
    /\ CheckRootDone
    /\ platform = "windows"
    /\ err.kind = "SidResolutionFailed"
    /\ Count(log, "token.Close") = 1
    /\ handles = 0

C10_WitnessOpenFailed ==
    /\ CheckRootDone
    /\ platform = "windows"
    /\ err.kind = "TokenAccessFailed"
    /\ token = "none"

----------------------------------------------------------------------------
(* The exit code and the reserved modes: Spec *)

EntryOf(c) == Called(Entry(c))
ReservedEntered == \E c \in ReservedModes : EntryOf(c)

\* C11: at exit the code is 0 when the selected mode's entry point completed
\* successfully, 1 when CheckRoot failed, non-zero when the command line did not
\* parse, 1 when the entry point reported a failure (the not-implemented
\* outcome of check, boot and single included), and every non-zero exit is
\* preceded by a message on the diagnostic output.
C11_ExitCodeMapping ==
    pc = "Exited" =>
        /\ exitCode # NoExit
        /\ (AnyEntry /\ ~ReservedEntered /\ err = Nil) => exitCode = 0
        /\ Called("CheckRoot.err") => exitCode = 1
        /\ err.kind = "ParseError" => exitCode # 0
        /\ (EntryOf(Root) /\ err # Nil) => exitCode = 1
        /\ ReservedEntered => exitCode = 1
        /\ exitCode # 0 => stderr # <<>>

\* the part of the mapping that needs no reserved mode
C11_MappingOfTheOtherModes ==
    (pc = "Exited" /\ ~ReservedEntered) =>
        /\ exitCode \in {0, 1}
        /\ (AnyEntry /\ err = Nil) => exitCode = 0
        /\ Called("CheckRoot.err") => exitCode = 1
        /\ err.kind = "ParseError" => exitCode = 1
        /\ (EntryOf(Root) /\ err # Nil) => exitCode = 1
        /\ exitCode # 0 => stderr # <<>>

\* C12: a reserved mode (check, boot, single) that is run ends in an explicit
\* not-implemented error value handed back to the dispatcher; the process never
\* terminates abnormally on it and it never counts as a success.
C12_NotImplementedIsAnErrorValue ==
    ReservedEntered =>
        /\ ~Called("panic")
        /\ pc \in {"ExecuteReturned", "Exited"} => err.kind = "NotImplemented"
        /\ pc = "Exited" => exitCode # 0

\* what the reserved modes do instead: the process dies in the mode's Run
C12_ReservedModePanics ==
    (ReservedEntered /\ pc = "Exited") =>
        /\ Called("panic")
        /\ exitCode = PanicExitCode
        /\ err = Nil

----------------------------------------------------------------------------
\* C13: an invocation selects exactly one mode or is a parse error: without a
\* subcommand the supervisor mode is selected, a registered name selects that
\* mode only, an unknown name never falls back to the supervisor; at most one
\* mode entry point runs in an execution, the selected one.
EntryCount == Cardinality({i \in 1..Len(log) : \E c \in Commands : log[i] = Entry(c)})
Parsed == pc \notin {"Start", "Parsing"}

C13_ExactlyOneMode ==
    /\ EntryCount <= 1
    /\ \A c \in Commands : EntryOf(c) => c = cmd
    /\ Parsed => \/ cmd \in Commands
                 \/ cmd = "none" /\ err.kind = "ParseError" /\ ~AnyEntry
    /\ (Parsed /\ argv = <<>>) => cmd = Root
    /\ (Parsed /\ argv # <<>> /\ argv[1] \in Children(Root)) =>
          /\ cmd = argv[1] \/ (argv[1] = "completion" /\ cmd = "bash")
          /\ ~EntryOf(Root)
    /\ (argv # <<>> /\ argv[1] \in Words \ Children(Root)) =>
          /\ cmd = "none"
          /\ ~AnyEntry
          /\ Parsed => err.kind = "ParseError"

C13_Witness ==
    /\ argv = <<"describe-config", "check">>
    /\ pc = "Exited"
    /\ EntryCount = 1
    /\ EntryOf("describe-config")

C13_WitnessDefault == argv = <<>> /\ EntryOf(Root) /\ EntryCount = 1

C13_WitnessUnknown == argv = <<"frobnicate">> /\ pc = "Exited" /\ cmd = "none"

----------------------------------------------------------------------------
\* C14: whether CheckRoot accepts, and with which kind of error it rejects,
\* does not depend on the program name: for one identity every program name
\* gives the same kind of result; the program name shows only in the text of
\* the identity-mismatch message.
FixedTexts ==
    {Nil.text, RootMessage, AdminMessage, TokenAccessFailed.text,
     SidResolutionFailed.text, MembershipCheckFailed.text}

\* the result kind the token state alone determines
TokenDecision(env) ==
    IF ~env.openOK THEN "TokenAccessFailed"
    ELSE IF ~env.sidOK THEN "SidResolutionFailed"
    ELSE IF ~env.memberOK THEN "MembershipCheckFailed"
    ELSE IF env.member THEN "RunningAsAdministrator"
    ELSE "nil"

C14_DecisionIgnoresProgramName ==
    CheckRootDone =>
        /\ platform = "posix" =>
              \A other \in Names :
                  /\ CheckRootPosix(other, ruid, euid).kind = err.kind
                  /\ err.kind # "IdentityMismatch" =>
                        CheckRootPosix(other, ruid, euid) = err
        /\ platform = "windows" => err.kind = TokenDecision(osenv)
        /\ err.kind # "IdentityMismatch" => err.text \in FixedTexts
        /\ err.kind = "IdentityMismatch" => err.text = progname \o MismatchSuffix

C14_Witness ==
    /\ CheckRootDone
    /\ platform = "posix"
    /\ ruid # euid
    /\ euid # 0
    /\ progname # <<>>
    /\ err.kind = "IdentityMismatch"
    /\ CheckRootPosix(<<>>, ruid, euid).kind = "IdentityMismatch"

----------------------------------------------------------------------------
\* C15: the dispatch of one process follows Start, Parsing, then ParseError or
\* PrivilegeCheck (skipped for the exempt modes), then PrivilegeRejected or
\* Running, then Exited or Supervising; the command line is parsed at most
\* once, CheckRoot is called at most once, and no later state leads back to
\* Parsing or PrivilegeCheck.
Phase ==
    IF pc = "Start" THEN "Start"
    ELSE IF pc \in {"Parsing", "ParseFlags", "PersistentPreRunE"} THEN "Parsing"
    ELSE IF pc \in {"CheckRoot", "CreateWellKnownSid", "IsMember", "IsAdmin",
                    "CheckRootReturn", "CheckRootRet"} THEN "PrivilegeCheck"
    ELSE IF pc = "ExecuteReturned" /\ err.kind = "ParseError" THEN "ParseError"
    ELSE IF pc = "ExecuteReturned" /\ err.kind \in PrivilegeErrorKinds
         THEN "PrivilegeRejected"
    ELSE IF pc \in {"Run", "ExecuteReturned"} THEN "Running"
    ELSE IF pc = "Supervising" THEN "Supervising"
    ELSE "Exited"

Phases ==
    {"Start", "Parsing", "ParseError", "PrivilegeCheck", "PrivilegeRejected",
     "Running", "Exited", "Supervising"}

PhaseEdges ==
    {<<"Start", "Parsing">>,
     <<"Parsing", "ParseError">>, <<"Parsing", "PrivilegeCheck">>,
     <<"Parsing", "Running">>,
     <<"PrivilegeCheck", "PrivilegeRejected">>, <<"PrivilegeCheck", "Running">>,
     <<"Running", "Exited">>, <<"Running", "Supervising">>,
     <<"ParseError", "Exited">>, <<"PrivilegeRejected", "Exited">>}
        \cup {<<ph, ph>> : ph \in Phases}

PhaseStep ==
    /\ <<Phase, Phase'>> \in PhaseEdges
    /\ pc' # "Start"
    /\ pc' = "Parsing" => pc = "Start"
    /\ pc' = "CheckRoot" => pc = "PersistentPreRunE" /\ ~Called("CheckRoot.call")
    /\ Count(log', "CheckRoot.call") <= 1
    /\ (Phase = "Parsing" /\ Phase' = "Running" /\ pc' = "Run") =>
          cmd \in {"describe-config", "help"}

C15_DispatchStateMachine == [][PhaseStep]_vars

C15_Witness ==
    /\ pc = "Supervising"
    /\ log = <<"CheckRoot.call", "OpenProcessToken.ok", "CreateWellKnownSid.ok",
               "IsMember.ok", "token.Close", "CheckRoot.ok", Entry(Root)>>

C15_WitnessRejected ==
    /\ pc = "Exited"
    /\ Count(log, "CheckRoot.call") = 1
    /\ Called("CheckRoot.err")
    /\ exitCode = 1

----------------------------------------------------------------------------
\* C16: on the token platform CheckRoot fails closed: it succeeds only when the
\* token was opened, the administrators SID was resolved, the membership test
\* succeeded and answered false; a failing OS step gives its own error, never
\* success, and no later step is attempted after it.
SidAttempted == Called("CreateWellKnownSid.ok") \/ Called("CreateWellKnownSid.err")
MemberAttempted == Called("IsMember.ok") \/ Called("IsMember.err")

C16_TokenCheckFailsClosed ==
    platform = "windows" =>
        /\ Called("OpenProcessToken.err") => ~SidAttempted /\ ~MemberAttempted
        /\ Called("CreateWellKnownSid.err") => ~MemberAttempted
        /\ CheckRootDone =>
              /\ Called("CheckRoot.ok") <=> err = Nil
              /\ err = Nil =>
                    /\ OsStepsOK /\ ~osenv.member
                    /\ Called("OpenProcessToken.ok")
                    /\ Called("CreateWellKnownSid.ok")
                    /\ Called("IsMember.ok")
              /\ ~osenv.openOK => err = TokenAccessFailed
              /\ (osenv.openOK /\ ~osenv.sidOK) => err = SidResolutionFailed
              /\ (osenv.openOK /\ osenv.sidOK /\ ~osenv.memberOK) =>
                    err = MembershipCheckFailed

C16_Witness ==
    /\ platform = "windows"
    /\ CheckRootDone
    /\ ~osenv.member
    /\ err = MembershipCheckFailed
    /\ Called("CheckRoot.err")

C16_WitnessSuccess ==
    /\ platform = "windows"
    /\ CheckRootDone
    /\ err = Nil
    /\ Called("IsMember.ok")

----------------------------------------------------------------------------
\* C17: on POSIX CheckRoot never succeeds when the real or the effective uid is
\* 0, nor when the two differ: success implies real uid = effective uid, both
\* non-zero; so no non-exempt mode entry point (supervisor, check, boot, single)
\* runs in a process whose real or effective uid is 0.
C17_NoRootEverPasses ==
    platform = "posix" =>
        /\ Called("CheckRoot.ok") => ruid = euid /\ ruid # 0 /\ euid # 0
        /\ (pc = "CheckRootRet" /\ err = Nil) => ruid = euid /\ ruid # 0 /\ euid # 0
        /\ (ruid = 0 \/ euid = 0 \/ ruid # euid) =>
              /\ \A c \in NonExemptModes : ~EntryOf(c)
              /\ pc \notin {"Run", "Supervising"} \/ cmd \notin NonExemptModes

C17_Witness ==
    /\ platform = "posix"
    /\ ruid = 0
    /\ euid # 0
    /\ argv = <<>>
    /\ pc = "Exited"
    /\ Called("CheckRoot.err")
    /\ exitCode = 1

----------------------------------------------------------------------------
\* C18: for the exempt modes (describe-config, help, and the help and version
\* flags) CheckRoot is never called, so what the run writes and its exit code
\* are the same for every process identity, those CheckRoot would reject and
\* those whose identity queries would fail included.
ExemptInvocation(a) ==
    /\ Find(a).err = Nil
    /\ \/ Find(a).cmd \in {"describe-config", "help"}
       \/ ExecuteOutcome(Find(a).cmd, Find(a).args).kind \in {"help", "version"}

\* the outcome as the command line alone determines it
OutcomeByCommandLine(a) ==
    LET c == Find(a).cmd
        o == ExecuteOutcome(c, Find(a).args)
        words == SelectSeq(Find(a).args, IsWord)
    IN  IF o.kind = "error"
        THEN [stdout |-> <<UsageOf(c)>>, stderr |-> <<ErrorLine(o.err)>>, exitCode |-> 1]
        ELSE [stdout |-> << IF o.kind = "help" THEN HelpOf(c)
                            ELSE IF o.kind = "version" THEN VersionLine
                            ELSE IF c = "describe-config" THEN ConfigListing
                            ELSE IF Find(words).err = Nil THEN HelpOf(Find(words).cmd)
                            ELSE <<"Unknown help topic">> \o UsageOf(Root) >>,
              stderr |-> <<>>,
              exitCode |-> 0]

C18_ExemptModesIgnoreIdentity ==
    ExemptInvocation(argv) =>
        /\ ~Called("CheckRoot.call")
        /\ ~Called("OpenProcessToken.ok") /\ ~Called("OpenProcessToken.err")
        /\ handles = 0
        /\ Progress
        /\ pc # "Supervising"
        /\ pc = "Exited" =>
              [stdout |-> stdout, stderr |-> stderr, exitCode |-> exitCode]
                  = OutcomeByCommandLine(argv)

C18_Witness ==
    /\ argv = <<"describe-config">>
    /\ platform = "windows"
    /\ ~osenv.openOK
    /\ pc = "Exited"
    /\ exitCode = 0
    /\ stdout = <<ConfigListing>>

C18_WitnessVersionAsRoot ==
    /\ argv = <<"--version">>
    /\ platform = "posix"
    /\ euid = 0
    /\ pc = "Exited"
    /\ stdout = <<VersionLine>>

C18_WitnessHelp ==
    /\ argv = <<"help", "check">>
    /\ platform = "posix"
    /\ ruid # euid
    /\ pc = "Exited"
    /\ stdout = <<HelpOf("check")>>

====
